---- MODULE Spec2Model ----
(***************************************************************************)
(* The data-fetching and state-coordination layer of the Pokemon dashboard *)
(* (src/src/App.tsx, component App): the two async workflows               *)
(* fetchPokemonList and fetchPokemonDetails, the six React state cells     *)
(* they write, and the handlers that start them.                           *)
(*                                                                         *)
(* JavaScript runs the component on one thread: the code between two       *)
(* awaits runs to completion, so each action below is one such stretch.    *)
(* `await fetch(..)` followed by `await response.json()` is one step of    *)
(* the model: nothing of the program runs or is written between the two.   *)
(***************************************************************************)
EXTENDS Integers, Sequences, FiniteSets, TLC

VARIABLES
    pokemonList,        \* useState<any[]>([])       (line 32)
    selectedPokemon,    \* useState<any>(null)       (line 33)
    loading,            \* useState(false)           (line 34)
    detailsLoading,     \* useState(false)           (line 35)
    error,              \* useState<string|null>     (line 36)
    detailsError,       \* useState<string|null>     (line 37)
    rng,                \* hidden state of Math.random()
    hung,               \* the thread never leaves the while loop of line 50
    listOps,            \* the invocations of fetchPokemonList, in issue order
    detailOps,          \* the invocations of fetchPokemonDetails, in issue order
    selectedReference,  \* history: argument of the latest handleSelectPokemon
    lastRetry           \* history: what the latest onRetry did

vars == << pokemonList, selectedPokemon, loading, detailsLoading, error,
           detailsError, rng, hung, listOps, detailOps, selectedReference,
           lastRetry >>

listVars == << pokemonList, loading, error, rng, hung, listOps >>

detailVars == << selectedPokemon, detailsLoading, detailsError, detailOps,
                 selectedReference, lastRetry >>

(***************************************************************************)
(* Bounds of the model.                                                    *)
(***************************************************************************)
\* fetchPokemonList invocations in one run (the mount effect and refreshes)
MaxLoads == 3
\* fetchPokemonList invocations in flight at the same time
MaxInFlight == 2
\* fetchPokemonDetails invocations in one run
MaxSelects == 2
\* the user clicks one of the first MaxPos cards of the displayed list
MaxPos == 2
\* sampling is checked for the generator's start states 0..MaxSeed
MaxSeed == 1
\* sampling is checked for indexes of up to SampleSize + MaxExtra entries
MaxExtra == 2

(***************************************************************************)
(* Program constants.                                                      *)
(***************************************************************************)
\* while (randomPokemon.length < 10)
SampleSize == 10

\* JavaScript's null / an absent value, and a present one
Null == << >>

Some(v) == << v >>

\* setError('Failed to load Pokemon')
ListErrorMessage == "Failed to load Pokemon"

\* setDetailsError('Failed to load Pokemon details')
DetailErrorMessage == "Failed to load Pokemon details"

\* || 'No description'
NoDescription == "No description"

(***************************************************************************)
(* The remote API, as far as the program reads it.                         *)
(***************************************************************************)
PokemonUrl(i) == [kind |-> "pokemon", id |-> i]

SpeciesUrl(i) == [kind |-> "species", id |-> i]

\* { results: [{ name, url }, ...] } with n entries; names repeat, urls do not
CatalogIndex(n) == [i \in 1..n |-> [name |-> i % 4, url |-> PokemonUrl(i)]]

\* sprites.front_default of a primary record; null for some creatures
ImageOf(i) == IF i % 5 = 0 THEN Null ELSE Some(i)

\* the primary record served at a pokemon url
PokemonRecord(i) ==
    [id |-> i,
     species |-> [url |-> SpeciesUrl(i)],
     sprites |-> [front_default |-> ImageOf(i)]]

\* a primary record that itself carries a field named description
PokemonRecordWithDescription(i) ==
    [id |-> i,
     species |-> [url |-> SpeciesUrl(i)],
     sprites |-> [front_default |-> ImageOf(i)],
     description |-> "primary"]

\* the texts a flavor_text entry may carry ("" is the empty string)
FlavorTexts == {"", "first"}

\* the values of flavor_text_entries: empty, one entry, two entries, or a
\* first entry without a flavor_text field
FlavorEntryLists ==
    {<< >>}
    \cup {<< [flavor_text |-> t] >> : t \in FlavorTexts}
    \cup {<< [flavor_text |-> "first"], [flavor_text |-> "second"] >>,
          << [language |-> "en"] >>}

\* the secondary record served at a species url
SpeciesRecords(i) ==
    {[id |-> i]}
    \cup {[id |-> i, flavor_text_entries |-> l] : l \in FlavorEntryLists}

\* A settled fetch: the promise rejects (network error), or it resolves with
\* a response whose status is a success one (ok) or not, and whose body
\* either parses (json |-> Some(value)) or makes response.json() reject.
Rejected == [rejects |-> TRUE, ok |-> FALSE, json |-> Null]

Resolved(ok, json) == [rejects |-> FALSE, ok |-> ok, json |-> json]

\* the index sizes of the coordination runs: empty, one short, just enough
ListSizes == {0, SampleSize - 1, SampleSize}

\* the index sizes of the sampling runs
SamplerSizes == {0} \cup ((SampleSize - 1)..(SampleSize + MaxExtra))

\* the bodies of the index endpoint: unparsable, an object without results,
\* or an index of one of the given sizes
IndexBodies(sizes) ==
    {Null, Some([count |-> 0])}
    \cup {Some([results |-> CatalogIndex(n)]) : n \in sizes}

\* the bodies served at a url: unparsable, an object without the fields
\* the program reads, or the record of that url
BodiesAt(url) ==
    IF url.kind = "pokemon"
    THEN {Null, Some([detail |-> "Not found."]),
          Some(PokemonRecord(url.id)),
          Some(PokemonRecordWithDescription(url.id))}
    ELSE {Null} \cup {Some(s) : s \in SpeciesRecords(url.id)}

IndexResponses(sizes) ==
    {Rejected} \cup {Resolved(ok, b) : ok \in BOOLEAN, b \in IndexBodies(sizes)}

ResponsesAt(url) ==
    {Rejected} \cup {Resolved(ok, b) : ok \in BOOLEAN, b \in BodiesAt(url)}

\* a fetch that answered with a non-success status
BadStatus(resp) == ~resp.rejects /\ ~resp.ok

\* a failed fetch: network error, non-success status, or a body that does
\* not parse
FetchFailed(resp) == resp.rejects \/ ~resp.ok \/ resp.json = Null

(***************************************************************************)
(* Math.random(): a generator with hidden state.  The model's generator    *)
(* has 16 states and visits all of them; its state is a pair (x, c).       *)
(***************************************************************************)
Seeds == [x : 0..MaxSeed, c : {2 * k + 1 : k \in 0..MaxSeed}]

\* the generator's step
NextRandom(r) == [r EXCEPT !.x = (5 * r.x + r.c) % 16]

\* Math.floor(Math.random() * length), for the value r.x / 16 of Math.random()
RandomIndex(r, length) == (r.x * length) \div 16

\* data.results[randomIndex]: undefined beyond the end of the array
Undefined == [undefined |-> TRUE]

ArrayAt(array, index) ==
    IF index + 1 \in DOMAIN array THEN array[index + 1] ELSE Undefined

\* usedIndices.has(randomIndex); a JavaScript Set keeps insertion order
SetHas(usedIndices, randomIndex) ==
    \E k \in DOMAIN usedIndices : usedIndices[k] = randomIndex

\* the guard of line 52
IsFreshIndexUnchecked(usedIndices, randomIndex) == TRUE

IsFreshIndex(usedIndices, randomIndex) == ~SetHas(usedIndices, randomIndex)

(***************************************************************************)
(* Lines 47-56: the sampling loop.  It runs without an await, so it is     *)
(* one stretch of the thread.  idle counts the draws since the last index  *)
(* was added: when the generator has gone through all its 16 states        *)
(* without a fresh index, the loop is back in a state it was in, and it    *)
(* never exits (exits |-> FALSE).  draws records every randomIndex drawn.  *)
(***************************************************************************)
RECURSIVE SampleLoop(_, _, _, _, _, _)
SampleLoop(results, r, randomPokemon, usedIndices, draws, idle) ==
    IF Len(randomPokemon) >= SampleSize
    THEN [exits |-> TRUE, randomPokemon |-> randomPokemon,
          usedIndices |-> usedIndices, draws |-> draws, rng |-> r]
    ELSE IF idle >= 16
    THEN [exits |-> FALSE, randomPokemon |-> randomPokemon,
          usedIndices |-> usedIndices, draws |-> draws, rng |-> r]
    ELSE LET randomIndex == RandomIndex(r, Len(results))
         IN  IF IsFreshIndex(usedIndices, randomIndex)
             THEN SampleLoop(results, NextRandom(r),
                             Append(randomPokemon, ArrayAt(results, randomIndex)),
                             Append(usedIndices, randomIndex),
                             Append(draws, randomIndex), 0)
             ELSE SampleLoop(results, NextRandom(r), randomPokemon,
                             usedIndices, Append(draws, randomIndex), idle + 1)

Sample(results, r) == SampleLoop(results, r, << >>, << >>, << >>, 0)

(***************************************************************************)
(* Frames of the async functions.                                          *)
(***************************************************************************)
\* a fetchPokemonList invocation that awaits the index fetch (line 44)
NewListFrame ==
    [pc |-> "index",            \* index | sampling | preview | done
     outcome |-> "pending",     \* pending | ok | failed
     results |-> << >>,         \* data.results
     randomPokemon |-> << >>,
     usedIndices |-> << >>,
     draws |-> << >>,
     pokemonWithImages |-> << >>,
     listAtIssue |-> pokemonList,   \* history: the list when it was issued
     detailAtIssue |-> selectedPokemon, \* history: the detail at that time
     indexSize |-> Null,        \* history: the entries of the index it got
     fetchFailed |-> FALSE,     \* history: one of its fetches failed
     badStatus |-> FALSE,       \* history: ... with a non-success status
     settledLate |-> FALSE,     \* history: it settled after the latest did
     previewsIssued |-> 0]      \* history: preview fetches issued so far

InFlight(ops) == {i \in DOMAIN ops : ops[i].outcome = "pending"}

\* The history of a frame that has returned is kept until the next
\* invocation is issued; after that only its outcome is.
RetiredListFrame(frame) ==
    [pc |-> "done", outcome |-> frame.outcome, results |-> << >>,
     randomPokemon |-> << >>, usedIndices |-> << >>, draws |-> << >>,
     pokemonWithImages |-> << >>, listAtIssue |-> << >>,
     detailAtIssue |-> Null, indexSize |-> Null,
     fetchFailed |-> FALSE, badStatus |-> FALSE, settledLate |-> FALSE,
     previewsIssued |-> 0]

RetireSettledLists(ops) ==
    [i \in DOMAIN ops |->
        IF ops[i].outcome = "pending" THEN ops[i] ELSE RetiredListFrame(ops[i])]

\* the preview item of lines 62-66
PreviewItem(pokemon, details) ==
    [name |-> pokemon.name, url |-> pokemon.url,
     image |-> details.sprites.front_default]

(***************************************************************************)
(* fetchPokemonList, lines 39-76.                                          *)
(***************************************************************************)
\* the issue step without setError(null)
fetchPokemonListKeepingError ==
    /\ loading' = TRUE
    /\ listOps' = Append(RetireSettledLists(listOps), NewListFrame)
    /\ UNCHANGED << pokemonList, error, rng, hung >>

\* lines 40-44: setLoading(true); setError(null); the index fetch is issued
fetchPokemonList ==
    /\ loading' = TRUE
    /\ error' = Null
    /\ listOps' = Append(RetireSettledLists(listOps), NewListFrame)
    /\ UNCHANGED << pokemonList, rng, hung >>

\* lines 101-103: the effect that runs once after the first render
useEffectMount ==
    /\ ~hung
    /\ Len(listOps) = 0
    /\ fetchPokemonList
    /\ UNCHANGED detailVars

\* a refresh that also clears the selected detail
handleRefreshClearingSelection ==
    /\ ~hung
    /\ Len(listOps) \in 1..(MaxLoads - 1)
    /\ Cardinality(InFlight(listOps)) < MaxInFlight
    /\ fetchPokemonList
    /\ selectedPokemon' = Null
    /\ UNCHANGED << detailsLoading, detailsError, detailOps,
                    selectedReference, lastRetry >>

\* lines 109-111: a click on the refresh button
handleRefresh ==
    /\ ~hung
    /\ Len(listOps) \in 1..(MaxLoads - 1)
    /\ Cardinality(InFlight(listOps)) < MaxInFlight
    /\ fetchPokemonList
    /\ UNCHANGED detailVars

\* the locals of a frame that has returned
ListFrameDone(frame, outcome, resp) ==
    [frame EXCEPT !.pc = "done", !.outcome = outcome,
                  !.fetchFailed = @ \/ FetchFailed(resp),
                  !.badStatus = @ \/ BadStatus(resp),
                  !.settledLate = listOps[Len(listOps)].outcome # "pending",
                  !.results = << >>, !.usedIndices = << >>, !.draws = << >>]

\* lines 70-75: catch and finally
ListCatch(i, resp) ==
    /\ error' = Some(ListErrorMessage)
    /\ loading' = FALSE
    /\ listOps' = [listOps EXCEPT ![i] =
           [ListFrameDone(@, "failed", resp) EXCEPT
                !.randomPokemon = << >>, !.pokemonWithImages = << >>]]
    /\ UNCHANGED << pokemonList, rng, hung >>

\* lines 69 and 73-75: setPokemonList(pokemonWithImages) and finally
ListSuccess(i, items, resp) ==
    /\ pokemonList' = items
    /\ loading' = FALSE
    /\ listOps' = [listOps EXCEPT ![i] =
           [ListFrameDone(@, "ok", resp) EXCEPT !.pokemonWithImages = items]]
    /\ UNCHANGED << error, rng, hung >>

\* lines 44-56: the index fetch settles; the body is parsed and sampled
IndexThrows(resp) ==
    \/ resp.rejects
    \/ resp.json = Null
    \/ "results" \notin DOMAIN resp.json[1]

IndexResponse(i, resp) ==
    /\ ~hung
    /\ i \in DOMAIN listOps
    /\ listOps[i].pc = "index"
    /\ IF IndexThrows(resp)
       THEN ListCatch(i, resp)
       ELSE LET s == Sample(resp.json[1].results, rng)
            IN  /\ rng' = s.rng
                /\ hung' = ~s.exits
                /\ listOps' = [listOps EXCEPT ![i] =
                       [@ EXCEPT !.pc = IF s.exits THEN "preview" ELSE "sampling",
                                 !.results = resp.json[1].results,
                                 !.randomPokemon = s.randomPokemon,
                                 !.usedIndices = s.usedIndices,
                                 !.draws = s.draws,
                                 !.indexSize = Some(Len(resp.json[1].results)),
                                 !.fetchFailed = FetchFailed(resp),
                                 !.badStatus = BadStatus(resp),
                                 !.previewsIssued = IF s.exits THEN 1 ELSE 0]]
                /\ UNCHANGED << pokemonList, loading, error >>
    /\ UNCHANGED detailVars

\* lines 59-67: the preview fetch the loop awaits settles
PreviewThrows(resp) ==
    \/ resp.rejects
    \/ resp.json = Null
    \/ "sprites" \notin DOMAIN resp.json[1]

PreviewResponse(i) ==
    /\ ~hung
    /\ i \in DOMAIN listOps
    /\ listOps[i].pc = "preview"
    /\ LET frame == listOps[i]
           pokemon == frame.randomPokemon[Len(frame.pokemonWithImages) + 1]
       IN  \E resp \in ResponsesAt(pokemon.url) :
             IF PreviewThrows(resp)
             THEN ListCatch(i, resp)
             ELSE LET items == Append(frame.pokemonWithImages,
                                      PreviewItem(pokemon, resp.json[1]))
                  IN  IF Len(items) = Len(frame.randomPokemon)
                      THEN ListSuccess(i, items, resp)
                      ELSE /\ listOps' = [listOps EXCEPT ![i] =
                                 [@ EXCEPT !.pokemonWithImages = items,
                                           !.fetchFailed = @ \/ FetchFailed(resp),
                                           !.badStatus = @ \/ BadStatus(resp),
                                           !.previewsIssued = @ + 1]]
                           /\ UNCHANGED << pokemonList, loading, error, rng, hung >>
    /\ UNCHANGED detailVars

NextList ==
    \/ useEffectMount
    \/ handleRefresh
    \/ \E i \in 1..MaxLoads : \E resp \in IndexResponses(ListSizes) :
          IndexResponse(i, resp)
    \/ \E i \in 1..MaxLoads : PreviewResponse(i)

\* a click on the refresh button once the list has stopped loading
handleRefreshSettled ==
    /\ InFlight(listOps) = {}
    /\ handleRefresh

NextSampler ==
    \/ useEffectMount
    \/ handleRefreshSettled
    \/ \E i \in 1..MaxLoads : \E resp \in IndexResponses(SamplerSizes) :
          IndexResponse(i, resp)
    \/ \E i \in 1..MaxLoads : PreviewResponse(i)

(***************************************************************************)
(* The state after construction (lines 32-37), before the effect runs.     *)
(***************************************************************************)
FirstSeed == [x |-> 0, c |-> 1]

InitFrom(seeds) ==
    /\ pokemonList = << >>
    /\ selectedPokemon = Null
    /\ loading = FALSE
    /\ detailsLoading = FALSE
    /\ error = Null
    /\ detailsError = Null
    /\ rng \in seeds
    /\ hung = FALSE
    /\ listOps = << >>
    /\ detailOps = << >>
    /\ selectedReference = Null
    /\ lastRetry = Null

Init == InitFrom({FirstSeed})

InitSampler == InitFrom(Seeds)

SpecList == Init /\ [][NextList]_vars

SpecSampler == InitSampler /\ [][NextSampler]_vars

\* every fetch that was issued settles: the step that takes a settled index
\* fetch or preview fetch is not put off for ever
IndexSettles ==
    \E i \in 1..MaxLoads : \E resp \in IndexResponses(ListSizes) :
        IndexResponse(i, resp)

PreviewSettles == \E i \in 1..MaxLoads : PreviewResponse(i)

SpecListLive ==
    /\ Init
    /\ [][NextList]_vars
    /\ WF_vars(IndexSettles)
    /\ WF_vars(PreviewSettles)

(***************************************************************************)
(* fetchPokemonDetails, lines 78-99.                                       *)
(***************************************************************************)
\* a fetchPokemonDetails invocation that awaits the primary fetch (line 83)
NewDetailFrame(url, via) ==
    [pc |-> "primary",          \* primary | secondary | done
     outcome |-> "pending",     \* pending | ok | failed
     url |-> url,
     data |-> Null,             \* the primary record, once parsed
     via |-> via,               \* history: select | retry
     fetchFailed |-> FALSE,     \* history: one of its fetches failed
     badStatus |-> FALSE,       \* history: ... with a non-success status
     speciesData |-> Null,      \* history: the secondary record it parsed
     result |-> Null,           \* history: the record it wrote
     dataAtIssue |-> selectedPokemon]   \* history: the detail when issued

RetiredDetailFrame(frame) ==
    [pc |-> "done", outcome |-> frame.outcome, url |-> frame.url,
     data |-> Null, via |-> frame.via, fetchFailed |-> FALSE,
     badStatus |-> FALSE, speciesData |-> Null, result |-> Null,
     dataAtIssue |-> Null]

RetireSettledDetails(ops) ==
    [j \in DOMAIN ops |->
        IF ops[j].outcome = "pending" THEN ops[j] ELSE RetiredDetailFrame(ops[j])]

\* lines 79-83: setDetailsLoading(true); setDetailsError(null); fetch(url)
fetchPokemonDetails(url, via) ==
    /\ detailsLoading' = TRUE
    /\ detailsError' = Null
    /\ detailOps' = Append(RetireSettledDetails(detailOps),
                           NewDetailFrame(url, via))
    /\ UNCHANGED selectedPokemon

\* lines 105-107: a click on a card of the displayed list
handleSelectPokemon(url) ==
    /\ ~hung
    /\ Len(detailOps) < MaxSelects
    /\ \E pos \in 1..MaxPos :
          /\ pos \in DOMAIN pokemonList
          /\ url = pokemonList[pos].url
    /\ selectedReference' = Some(url)
    /\ fetchPokemonDetails(url, "select")
    /\ UNCHANGED << lastRetry, listVars >>

\* line 129: selectedPokemon && fetchPokemonDetails(selectedPokemon.species.url)
onRetry ==
    /\ ~hung
    /\ IF selectedPokemon = Null
       THEN /\ lastRetry' = Some([noop |-> TRUE, url |-> Null,
                                  reference |-> selectedReference])
            /\ UNCHANGED << selectedPokemon, detailsLoading, detailsError,
                            detailOps >>
       ELSE /\ Len(detailOps) < MaxSelects
            /\ lastRetry' = Some([noop |-> FALSE,
                                  url |-> Some(selectedPokemon[1].species.url),
                                  reference |-> selectedReference])
            /\ fetchPokemonDetails(selectedPokemon[1].species.url, "retry")
    /\ UNCHANGED << selectedReference, listVars >>

\* lines 93-98: catch and finally
DetailCatch(j, resp) ==
    /\ detailsError' = Some(DetailErrorMessage)
    /\ detailsLoading' = FALSE
    /\ detailOps' = [detailOps EXCEPT ![j] =
           [@ EXCEPT !.pc = "done", !.outcome = "failed", !.data = Null,
                     !.fetchFailed = @ \/ FetchFailed(resp),
                     !.badStatus = @ \/ BadStatus(resp),
                     !.speciesData = IF detailOps[j].pc = "secondary"
                                     THEN resp.json ELSE Null]]
    /\ UNCHANGED selectedPokemon

\* lines 83-86: the primary fetch settles; data.species.url is read
PrimaryThrows(resp) ==
    \/ resp.rejects
    \/ resp.json = Null
    \/ "species" \notin DOMAIN resp.json[1]

PrimaryResponse(j) ==
    /\ ~hung
    /\ j \in DOMAIN detailOps
    /\ detailOps[j].pc = "primary"
    /\ \E resp \in ResponsesAt(detailOps[j].url) :
          IF PrimaryThrows(resp)
          THEN DetailCatch(j, resp)
          ELSE /\ detailOps' = [detailOps EXCEPT ![j] =
                      [@ EXCEPT !.pc = "secondary", !.data = resp.json,
                                !.fetchFailed = FetchFailed(resp),
                                !.badStatus = BadStatus(resp)]]
               /\ UNCHANGED << selectedPokemon, detailsLoading, detailsError >>
    /\ UNCHANGED << selectedReference, lastRetry, listVars >>

\* line 91 reading the last entry of the list instead of entry 0
DescriptionOfLastEntry(speciesData) ==
    LET entries == speciesData.flavor_text_entries
    IN  IF entries = << >> THEN NoDescription
        ELSE IF "flavor_text" \notin DOMAIN entries[Len(entries)] THEN NoDescription
        ELSE IF entries[Len(entries)].flavor_text = "" THEN NoDescription
        ELSE entries[Len(entries)].flavor_text

\* line 91: speciesData.flavor_text_entries[0]?.flavor_text || 'No description'
DescriptionOf(speciesData) ==
    LET entries == speciesData.flavor_text_entries
    IN  IF entries = << >> THEN NoDescription
        ELSE IF "flavor_text" \notin DOMAIN entries[1] THEN NoDescription
        ELSE IF entries[1].flavor_text = "" THEN NoDescription
        ELSE entries[1].flavor_text

\* the merge with the spread last: { description: ..., ...data }
MergeDescriptionPrimaryWins(data, description) ==
    [f \in DOMAIN data \cup {"description"} |->
        IF f \in DOMAIN data THEN data[f] ELSE description]

\* lines 89-92: { ...data, description: ... }
MergeDescription(data, description) ==
    [f \in DOMAIN data \cup {"description"} |->
        IF f = "description" THEN description ELSE data[f]]

\* lines 86-92: the secondary fetch settles; flavor_text_entries[0] is read
SecondaryThrows(resp) ==
    \/ resp.rejects
    \/ resp.json = Null
    \/ "flavor_text_entries" \notin DOMAIN resp.json[1]

SecondaryResponse(j) ==
    /\ ~hung
    /\ j \in DOMAIN detailOps
    /\ detailOps[j].pc = "secondary"
    /\ \E resp \in ResponsesAt(detailOps[j].data[1].species.url) :
          IF SecondaryThrows(resp)
          THEN DetailCatch(j, resp)
          ELSE LET merged == MergeDescription(detailOps[j].data[1],
                                              DescriptionOf(resp.json[1]))
               IN  /\ selectedPokemon' = Some(merged)
                   /\ detailsLoading' = FALSE
                   /\ detailOps' = [detailOps EXCEPT ![j] =
                          [@ EXCEPT !.pc = "done", !.outcome = "ok",
                                    !.fetchFailed = @ \/ FetchFailed(resp),
                                    !.badStatus = @ \/ BadStatus(resp),
                                    !.speciesData = resp.json,
                                    !.result = Some(merged)]]
                   /\ UNCHANGED detailsError
    /\ UNCHANGED << selectedReference, lastRetry, listVars >>

NextDetail ==
    \/ \E n \in 1..(SampleSize + MaxExtra) : handleSelectPokemon(PokemonUrl(n))
    \/ onRetry
    \/ \E j \in 1..MaxSelects : PrimaryResponse(j)
    \/ \E j \in 1..MaxSelects : SecondaryResponse(j)

\* a click on a card, or on retry, once the detail has stopped loading
handleSelectSettled(url) ==
    /\ InFlight(detailOps) = {}
    /\ handleSelectPokemon(url)

onRetrySettled ==
    /\ InFlight(detailOps) = {}
    /\ onRetry

NextResolver ==
    \/ \E n \in 1..(SampleSize + MaxExtra) : handleSelectSettled(PokemonUrl(n))
    \/ onRetrySettled
    \/ \E j \in 1..MaxSelects : PrimaryResponse(j)
    \/ \E j \in 1..MaxSelects : SecondaryResponse(j)

(***************************************************************************)
(* A state the program is in after the mount effect's load has succeeded:  *)
(* the index had SampleSize entries and every fetch answered its record.   *)
(***************************************************************************)
LoadedSample == Sample(CatalogIndex(SampleSize), FirstSeed)

LoadedList ==
    [k \in 1..SampleSize |->
        PreviewItem(LoadedSample.randomPokemon[k],
                    PokemonRecord(LoadedSample.randomPokemon[k].url.id))]

InitLoaded ==
    /\ pokemonList = LoadedList
    /\ selectedPokemon = Null
    /\ loading = FALSE
    /\ detailsLoading = FALSE
    /\ error = Null
    /\ detailsError = Null
    /\ rng = LoadedSample.rng
    /\ hung = FALSE
    /\ listOps = << [pc |-> "done", outcome |-> "ok", results |-> << >>,
                     randomPokemon |-> LoadedSample.randomPokemon,
                     usedIndices |-> << >>, draws |-> << >>,
                     pokemonWithImages |-> LoadedList,
                     listAtIssue |-> << >>, detailAtIssue |-> Null,
                     indexSize |-> Some(SampleSize),
                     fetchFailed |-> FALSE, badStatus |-> FALSE,
                     settledLate |-> FALSE,
                     previewsIssued |-> SampleSize] >>
    /\ detailOps = << >>
    /\ selectedReference = Null
    /\ lastRetry = Null

SpecDetail == InitLoaded /\ [][NextDetail]_vars

SpecResolver == InitLoaded /\ [][NextResolver]_vars

\* the two workflows side by side, each slot with one invocation at a time
NextSlots ==
    \/ handleRefreshSettled
    \/ \E i \in 1..MaxLoads : \E resp \in IndexResponses(ListSizes) :
          IndexResponse(i, resp)
    \/ \E i \in 1..MaxLoads : PreviewResponse(i)
    \/ \E n \in 1..(SampleSize + MaxExtra) : handleSelectSettled(PokemonUrl(n))
    \/ onRetrySettled
    \/ \E j \in 1..MaxSelects : PrimaryResponse(j)
    \/ \E j \in 1..MaxSelects : SecondaryResponse(j)

SpecSlots == InitLoaded /\ [][NextSlots]_vars

\* The two workflows one after the other, each with overlapping
\* invocations: loads and refreshes until a card is clicked, and cards
\* clicked on the list the mount effect's load has displayed.
MountLoadDisplayed ==
    /\ Len(listOps) = 1
    /\ listOps[1].outcome = "ok"
    /\ ~listOps[1].fetchFailed

NextOverlap ==
    \/ /\ detailOps = << >>
       /\ lastRetry = Null
       /\ NextList
    \/ /\ MountLoadDisplayed
       /\ NextDetail

SpecOverlap == Init /\ [][NextOverlap]_vars

Next == NextList \/ NextDetail

Spec == Init /\ [][Next]_vars

(***************************************************************************)
(* Properties.                                                             *)
(***************************************************************************)
Settled(ops) == \A i \in DOMAIN ops : ops[i].outcome # "pending"

\* every fetch of every invocation answered with a success status
AllStatusesOk(ops) == \A i \in DOMAIN ops : ~ops[i].badStatus

\* InitLoaded is a state the program reaches from Init
LoadedStateReached == ~InitLoaded

\* C1: last selection wins on the detail slot.  When handleSelectPokemon(A)
\* was followed by handleSelectPokemon(B) and the fetches of both have
\* settled, B's having succeeded, the detail data is the record B's
\* invocation resolved, whatever the order in which the fetches settled.
\* (Stated for two different references and fetches that all answered with
\* a success status.)
C1_LastSelectionWins ==
    \A a, b \in DOMAIN detailOps :
        ( /\ a < b
          /\ b = Len(detailOps)
          /\ detailOps[a].via = "select"
          /\ detailOps[b].via = "select"
          /\ detailOps[a].url # detailOps[b].url
          /\ AllStatusesOk(detailOps)
          /\ Settled(detailOps)
          /\ detailOps[b].outcome = "ok" )
        => selectedPokemon = detailOps[b].result

\* C2: stale discard on the list slot.  Once an earlier-issued
\* fetchPokemonList invocation has settled after the one issued last, the
\* list state is that of the one issued last: its items and no error if it
\* succeeded, the list as it was when it was issued and an error if it
\* failed; loading is off.  (Stated for fetches that all answered with a
\* success status.)
C2_StaleListDiscard ==
    ( /\ Settled(listOps)
      /\ AllStatusesOk(listOps)
      /\ \E a \in DOMAIN listOps : listOps[a].settledLate )
    => LET latest == listOps[Len(listOps)]
       IN  /\ loading = FALSE
           /\ IF latest.outcome = "ok"
              THEN pokemonList = latest.pokemonWithImages /\ error = Null
              ELSE pokemonList = latest.listAtIssue /\ error # Null

\* C3: batch all-or-nothing.  A settled invocation one of whose fetches (the
\* index fetch or a preview fetch) failed has settled as failed, and if it
\* is the one issued last the list shows the stable error message, loading
\* is off and the list is the list as it was before the call.
C3_BatchAllOrNothing ==
    \A i \in DOMAIN listOps :
        ( listOps[i].fetchFailed /\ listOps[i].outcome # "pending" )
        => /\ listOps[i].outcome = "failed"
           /\ i = Len(listOps)
              => /\ error = Some(ListErrorMessage)
                 /\ loading = FALSE
                 /\ pokemonList = listOps[i].listAtIssue

\* the first occurrences of the values of a sequence, in order
RECURSIVE FirstOccurrences(_)
FirstOccurrences(seq) ==
    IF seq = << >> THEN << >>
    ELSE LET front == FirstOccurrences(SubSeq(seq, 1, Len(seq) - 1))
             last == seq[Len(seq)]
         IN  IF \E k \in DOMAIN front : front[k] = last
             THEN front ELSE Append(front, last)

\* C4: sampling uniqueness.  For an index of at least SampleSize entries the
\* loop of lines 47-56 exits with exactly SampleSize entries, each the entry
\* of the index at a position of its own, in the order in which the
\* positions were first drawn.
C4_SamplingUniqueness ==
    \A i \in DOMAIN listOps :
        LET frame == listOps[i]
        IN  ( frame.indexSize # Null
              /\ frame.indexSize[1] >= SampleSize
              /\ frame.outcome = "pending" )
            => /\ frame.pc = "preview"
               /\ Len(frame.results) = frame.indexSize[1]
               /\ Len(frame.randomPokemon) = SampleSize
               /\ Len(frame.usedIndices) = SampleSize
               /\ \A k \in 1..SampleSize :
                     /\ frame.usedIndices[k] \in 0..(Len(frame.results) - 1)
                     /\ frame.randomPokemon[k]
                           = frame.results[frame.usedIndices[k] + 1]
               /\ \A k, l \in 1..SampleSize :
                     k # l => frame.usedIndices[k] # frame.usedIndices[l]
               /\ frame.usedIndices = FirstOccurrences(frame.draws)

\* C4's case: an index of more than SampleSize entries was sampled, and a
\* draw repeated an index already taken
C4_SampledWithRepeatedDraw ==
    \E i \in DOMAIN listOps :
        /\ listOps[i].pc = "preview"
        /\ listOps[i].indexSize # Null
        /\ listOps[i].indexSize[1] > SampleSize
        /\ Len(listOps[i].draws) > SampleSize

\* C5: insufficient-data guard.  An invocation whose index has fewer than
\* SampleSize entries has settled as failed without issuing a preview
\* fetch, and if it is the one issued last the list shows an error and
\* loading is off.  (Stated for an index fetch that succeeded.)
C5_InsufficientDataGuard ==
    \A i \in DOMAIN listOps :
        ( /\ listOps[i].indexSize # Null
          /\ listOps[i].indexSize[1] < SampleSize
          /\ ~listOps[i].fetchFailed )
        => /\ listOps[i].outcome = "failed"
           /\ listOps[i].previewsIssued = 0
           /\ i = Len(listOps) => (error # Null /\ loading = FALSE)

\* C6: stale-while-revalidate.  While the refresh issued last is in flight,
\* a load having succeeded before it was issued, the list is the list that
\* was displayed when it was issued.  (Stated for fetches that all answered
\* with a success status.)
C6_StaleWhileRevalidate ==
    \A i \in DOMAIN listOps :
        ( /\ i = Len(listOps)
          /\ AllStatusesOk(listOps)
          /\ listOps[i].outcome = "pending"
          /\ listOps[i].listAtIssue # << >> )
        => /\ pokemonList = listOps[i].listAtIssue
           /\ Len(pokemonList) = SampleSize

\* C7: a retry re-invokes the fetch with the reference passed to the latest
\* handleSelectPokemon, and does nothing only when there was no such call.
C7_RetryUsesSelectedReference ==
    lastRetry # Null
    => /\ lastRetry[1].noop <=> lastRetry[1].reference = Null
       /\ ~lastRetry[1].noop => lastRetry[1].url = lastRetry[1].reference

\* the secondary record has no description: the list is empty or absent
HasNoDescriptionList(speciesData) ==
    \/ "flavor_text_entries" \notin DOMAIN speciesData
    \/ speciesData.flavor_text_entries = << >>

\* C8: description sentinel.  An invocation whose two fetches succeeded and
\* whose secondary record has an empty or absent description list has
\* settled with the description "No description", and if it is the one
\* issued last there is no detail error.
C8_DescriptionSentinel ==
    \A j \in DOMAIN detailOps :
        LET frame == detailOps[j]
        IN  ( /\ frame.outcome # "pending"
              /\ ~frame.fetchFailed
              /\ frame.speciesData # Null
              /\ HasNoDescriptionList(frame.speciesData[1]) )
            => /\ frame.outcome = "ok"
               /\ frame.result # Null
               /\ frame.result[1].description = NoDescription
               /\ j = Len(detailOps) => detailsError = Null

\* the secondary record's description list has a first entry with a text
HasFirstText(speciesData) ==
    /\ "flavor_text_entries" \in DOMAIN speciesData
    /\ speciesData.flavor_text_entries # << >>
    /\ "flavor_text" \in DOMAIN speciesData.flavor_text_entries[1]

FirstText(speciesData) == speciesData.flavor_text_entries[1].flavor_text

\* C9 as stated: the description of the record an invocation wrote is the
\* text of the first entry of the description list, whatever that text is.
C9_FirstTextVerbatim ==
    \A j \in DOMAIN detailOps :
        ( /\ detailOps[j].outcome = "ok"
          /\ detailOps[j].result # Null
          /\ HasFirstText(detailOps[j].speciesData[1]) )
        => detailOps[j].result[1].description
              = FirstText(detailOps[j].speciesData[1])

\* C9, amended: the description of the record an invocation wrote is the
\* text of the first entry of the description list when that text is not
\* empty, and "No description" when it is the empty string.
C9_FirstNonEmptyTextVerbatim ==
    \A j \in DOMAIN detailOps :
        ( /\ detailOps[j].outcome = "ok"
          /\ detailOps[j].result # Null
          /\ HasFirstText(detailOps[j].speciesData[1]) )
        => detailOps[j].result[1].description
              = IF FirstText(detailOps[j].speciesData[1]) = ""
                THEN NoDescription
                ELSE FirstText(detailOps[j].speciesData[1])

\* C9's case: an invocation merged a description list of two entries
C9_MergedSeveralEntries ==
    \E j \in DOMAIN detailOps :
        /\ detailOps[j].outcome = "ok"
        /\ detailOps[j].result # Null
        /\ HasFirstText(detailOps[j].speciesData[1])
        /\ Len(detailOps[j].speciesData[1].flavor_text_entries) > 1
        /\ detailOps[j].result[1].description = "first"

\* C10: a fetch that answers with a non-success status fails its operation.
\* A settled invocation of either workflow one of whose fetches answered
\* with a non-success status has settled as failed.
C10_NonSuccessStatusFails ==
    /\ \A i \in DOMAIN listOps :
          ( listOps[i].badStatus /\ listOps[i].outcome # "pending" )
          => listOps[i].outcome = "failed"
    /\ \A j \in DOMAIN detailOps :
          ( detailOps[j].badStatus /\ detailOps[j].outcome # "pending" )
          => detailOps[j].outcome = "failed"

\* C11: a selection's failure keeps the detail data.  While the invocation
\* issued last is in flight the detail data is what it was when it was
\* issued; once it has settled, one of its fetches having failed, it has
\* settled as failed, the detail error is set, detailsLoading is off and the
\* detail data is still what it was when it was issued.
C11_SelectFailureKeepsData ==
    \A j \in DOMAIN detailOps :
        j = Len(detailOps)
        => /\ detailOps[j].outcome = "pending"
              => selectedPokemon = detailOps[j].dataAtIssue
           /\ ( detailOps[j].outcome # "pending" /\ detailOps[j].fetchFailed )
              => /\ detailOps[j].outcome = "failed"
                 /\ detailsError # Null
                 /\ detailsLoading = FALSE
                 /\ selectedPokemon = detailOps[j].dataAtIssue

\* C12: slot independence.  A step of fetchPokemonList (issue, a fetch
\* settling, success or failure) leaves selectedPokemon, detailsLoading and
\* detailsError as they were, and a step of fetchPokemonDetails or of a
\* retry leaves pokemonList, loading and error as they were.
C12_SlotIndependence ==
    [][ /\ listOps' # listOps
           => UNCHANGED << selectedPokemon, detailsLoading, detailsError >>
        /\ ( detailOps' # detailOps \/ lastRetry' # lastRetry )
           => UNCHANGED << pokemonList, loading, error >> ]_vars

\* C12's case: a refresh issued while a detail was displayed has settled,
\* and a selection has settled after it was issued
C12_RefreshedWithDetailShown ==
    /\ Len(listOps) >= 2
    /\ listOps[Len(listOps)].outcome # "pending"
    /\ listOps[Len(listOps)].detailAtIssue # Null
    /\ selectedPokemon # Null
    /\ selectedPokemon # listOps[Len(listOps)].detailAtIssue

\* the description line 91 computes from a secondary record that has a
\* description list
ComputedDescription(speciesData) ==
    IF HasFirstText(speciesData) /\ FirstText(speciesData) # ""
    THEN FirstText(speciesData)
    ELSE NoDescription

\* C13: the computed description always wins the merge.  The record an
\* invocation wrote has the fields of its primary record and the field
\* description; description holds the computed description (also when the
\* primary record has a field of that name), and every other field holds
\* the primary record's value.
C13_ComputedDescriptionWins ==
    \A j \in DOMAIN detailOps :
        ( detailOps[j].outcome = "ok" /\ detailOps[j].result # Null )
        => LET data == detailOps[j].data[1]
               merged == detailOps[j].result[1]
           IN  /\ DOMAIN merged = DOMAIN data \cup {"description"}
               /\ merged.description
                     = ComputedDescription(detailOps[j].speciesData[1])
               /\ \A f \in DOMAIN data \ {"description"} : merged[f] = data[f]

\* C13's case: an invocation merged a primary record that itself carries a
\* field named description, with another value than the computed one
C13_MergedOverPrimaryDescription ==
    \E j \in DOMAIN detailOps :
        /\ detailOps[j].outcome = "ok"
        /\ detailOps[j].result # Null
        /\ "description" \in DOMAIN detailOps[j].data[1]
        /\ detailOps[j].data[1].description
              # ComputedDescription(detailOps[j].speciesData[1])
        /\ detailOps[j].result[1].description
              = ComputedDescription(detailOps[j].speciesData[1])

\* C14: concurrent fan-out.  An invocation that awaits a preview fetch has
\* issued the preview fetches of all its sampled entries.  (Stated for
\* fetches that all succeeded so far.)
C14_ConcurrentFanOut ==
    \A i \in DOMAIN listOps :
        ( listOps[i].pc = "preview" /\ ~listOps[i].fetchFailed )
        => listOps[i].previewsIssued = Len(listOps[i].randomPokemon)

\* C15: loading excludes an error.  In every state, loading implies that
\* error is null and detailsLoading implies that detailsError is null.
C15_LoadingExcludesError ==
    /\ loading => error = Null
    /\ detailsLoading => detailsError = Null

\* C15's case: of two overlapping loads the earlier has failed while the
\* later is still in flight, and the error stays displayed
C15_ErrorWhileLaterInFlight ==
    /\ error # Null
    /\ \E a, b \in DOMAIN listOps :
          /\ a < b
          /\ listOps[a].outcome = "failed"
          /\ listOps[a].fetchFailed
          /\ listOps[b].outcome = "pending"

\* the preview items of a sample: item k has the name and the url of
\* sampled entry k and the image of the record served at that url
ExpectedItems(randomPokemon) ==
    [k \in DOMAIN randomPokemon |->
        [name |-> randomPokemon[k].name,
         url |-> randomPokemon[k].url,
         image |-> PokemonRecord(randomPokemon[k].url.id).sprites.front_default]]

\* C16: a successful load.  Once the invocation issued last has settled as
\* the last one to settle, having succeeded, the list is the SampleSize
\* preview items of its sample, in the sample's order, loading is off and
\* error is null.  (Stated for fetches that all answered with a success
\* status.)
C16_SuccessfulLoad ==
    \A i \in DOMAIN listOps :
        ( /\ i = Len(listOps)
          /\ listOps[i].outcome = "ok"
          /\ Settled(listOps)
          /\ AllStatusesOk(listOps)
          /\ \A a \in DOMAIN listOps : ~listOps[a].settledLate )
        => /\ Len(pokemonList) = SampleSize
           /\ pokemonList = ExpectedItems(listOps[i].randomPokemon)
           /\ loading = FALSE
           /\ error = Null

\* C17: loading tracks the invocations in flight.  While an invocation of
\* fetchPokemonList is in flight loading is on, and while an invocation of
\* fetchPokemonDetails is in flight detailsLoading is on.
C17_LoadingWhileInFlight ==
    /\ InFlight(listOps) # {} => loading = TRUE
    /\ InFlight(detailOps) # {} => detailsLoading = TRUE

\* C18: every load settles.  Every invocation of fetchPokemonList that was
\* issued eventually settles, as ok or as failed, provided every fetch
\* settles.
C18_EveryLoadSettles ==
    \A i \in 1..MaxLoads :
        (i \in DOMAIN listOps)
        ~> (i \in DOMAIN listOps /\ listOps[i].outcome # "pending")

\* C19: the error is the latest invocation's.  Once all invocations of a
\* workflow have settled, its error is set if and only if the invocation
\* issued last has failed.  (Stated for fetches that all answered with a
\* success status.)
C19_ErrorIsLatestOutcome ==
    /\ ( listOps # << >> /\ Settled(listOps) /\ AllStatusesOk(listOps) )
       => ( error # Null <=> listOps[Len(listOps)].outcome = "failed" )
    /\ ( detailOps # << >> /\ Settled(detailOps) /\ AllStatusesOk(detailOps) )
       => ( detailsError # Null
            <=> detailOps[Len(detailOps)].outcome = "failed" )

====
